---- MODULE Spec2Model ----
(***************************************************************************)
(* pgsqlconsts (src/main.go): reads a SQL schema, extracts the CREATE      *)
(* TABLE statements, renders them through a text template, formats the     *)
(* result with gofmt and writes it to stdout or to a file.                 *)
(*                                                                         *)
(* Text is modelled as a sequence of code points, so that goTitleCase and  *)
(* toString work on characters as the Go code does.                        *)
(***************************************************************************)
EXTENDS Integers, Sequences, FiniteSets, TLC

VARIABLES
    titleIn, titleOut, titleDone,     \* a call goTitleCase(titleIn)
    nodIn, nodOut, nodLog, nodDone,   \* a call toString(nodIn)
    pc,                               \* position of main()
    flags,                            \* command line: nArg, pkg, matchTables, outputFile, templateFile
    env,                              \* what the outside world answers: files, parser, formatter
    templateText,                     \* the template chosen at src/main.go:129-136
    data,                             \* Data{Package, Tables}
    buf,                              \* bytes.Buffer the template is executed into
    formatted,                        \* result of format.Source
    outFile,                          \* content of the output destination file
    stdout,                           \* what was written to os.Stdout
    stderr                            \* what was written to os.Stderr (log output included)

titleVars == <<titleIn, titleOut, titleDone>>
nodVars   == <<nodIn, nodOut, nodLog, nodDone>>
mainVars  == <<pc, flags, env, templateText, data, buf, formatted, outFile, stdout, stderr>>
vars      == <<titleIn, titleOut, titleDone, nodIn, nodOut, nodLog, nodDone,
               pc, flags, env, templateText, data, buf, formatted, outFile, stdout, stderr>>

----------------------------------------------------------------------------
(* Bounds of the model *)

MaxLen   == 4     \* longest enumerated input of goTitleCase
MaxParts == 3     \* longest enumerated type-name list of toString
MaxStmts == 2     \* longest enumerated statement list
MaxElts  == 3     \* longest enumerated element list of one CREATE TABLE

SeqsUpTo(S, n) == UNION {[1..k -> S] : k \in 0..n}

----------------------------------------------------------------------------
(* Characters and strings *)

Space      == 32     \* ' '
Underscore == 95     \* '_'
Comma      == 44     \* ','

str_id == <<105, 100>>     \* "id"
str_ID == <<73, 68>>       \* "ID"

\* unicode.ToTitle on the characters the model uses (ASCII): a..z map to A..Z,
\* every other character is unchanged.
ToTitle(c) == IF c \in 97..122 THEN c - 32 ELSE c

----------------------------------------------------------------------------
(* goTitleCase, src/main.go:164-188 *)

\* The for-range loop of goTitleCase; i is 1-based here, 0-based in Go.
RECURSIVE goTitleCaseLoop(_, _, _, _)
goTitleCaseLoop(s, i, titlecaseNext, out) ==
    IF i > Len(s) THEN out
    ELSE LET up == (i = 1) \/ titlecaseNext
             c  == IF up THEN ToTitle(s[i]) ELSE s[i]
             tn == IF up THEN FALSE ELSE titlecaseNext
         IN  IF c = Space THEN goTitleCaseLoop(s, i + 1, TRUE, Append(out, c))
             ELSE IF c = Underscore THEN goTitleCaseLoop(s, i + 1, TRUE, out)
             ELSE goTitleCaseLoop(s, i + 1, tn, Append(out, c))

\* Mutant: the `continue` of case '_' is lost, so underscores are written.
RECURSIVE goTitleCaseKeepLoop(_, _, _, _)
goTitleCaseKeepLoop(s, i, titlecaseNext, out) ==
    IF i > Len(s) THEN out
    ELSE LET up == (i = 1) \/ titlecaseNext
             c  == IF up THEN ToTitle(s[i]) ELSE s[i]
             tn == IF up THEN FALSE ELSE titlecaseNext
         IN  IF c = Space \/ c = Underscore
             THEN goTitleCaseKeepLoop(s, i + 1, TRUE, Append(out, c))
             ELSE goTitleCaseKeepLoop(s, i + 1, tn, Append(out, c))

goTitleCaseKeepUnderscore(s) ==
    IF s = str_id THEN str_ID ELSE goTitleCaseKeepLoop(s, 1, FALSE, <<>>)

\* Mutant: only the first character is title-cased (titlecaseNext ignored).
RECURSIVE goTitleCaseFirstLoop(_, _, _)
goTitleCaseFirstLoop(s, i, out) ==
    IF i > Len(s) THEN out
    ELSE LET c == IF i = 1 THEN ToTitle(s[i]) ELSE s[i]
         IN  IF c = Underscore THEN goTitleCaseFirstLoop(s, i + 1, out)
             ELSE goTitleCaseFirstLoop(s, i + 1, Append(out, c))

goTitleCaseFirstOnly(s) ==
    IF s = str_id THEN str_ID ELSE goTitleCaseFirstLoop(s, 1, <<>>)

\* Mutant: a space is consumed like an underscore.
RECURSIVE goTitleCaseDropLoop(_, _, _, _)
goTitleCaseDropLoop(s, i, titlecaseNext, out) ==
    IF i > Len(s) THEN out
    ELSE LET up == (i = 1) \/ titlecaseNext
             c  == IF up THEN ToTitle(s[i]) ELSE s[i]
             tn == IF up THEN FALSE ELSE titlecaseNext
         IN  IF c = Space \/ c = Underscore
             THEN goTitleCaseDropLoop(s, i + 1, TRUE, out)
             ELSE goTitleCaseDropLoop(s, i + 1, tn, Append(out, c))

goTitleCaseDropSpace(s) ==
    IF s = str_id THEN str_ID ELSE goTitleCaseDropLoop(s, 1, FALSE, <<>>)

goTitleCase(s) ==
    IF s = str_id THEN str_ID ELSE goTitleCaseLoop(s, 1, FALSE, <<>>)

----------------------------------------------------------------------------
(* toString, src/main.go:190-204 *)

StringNode(t) == [type |-> "String", Str |-> t]
IntegerNode   == [type |-> "Integer"]

LogUnhandledNode(n) == [kind |-> "log", msg |-> "unhandled node type", type |-> n.type]

\* The loop of toString: the buffer and the log lines printed so far.
RECURSIVE toStringLoop(_, _, _, _)
toStringLoop(nod, k, out, lg) ==
    IF k > Len(nod) THEN [buf |-> out, log |-> lg]
    ELSE LET n == nod[k]
         IN  IF n.type = "String"
             THEN toStringLoop(nod, k + 1,
                               (IF Len(out) # 0 THEN Append(out, Space) ELSE out) \o n.Str,
                               lg)
             ELSE toStringLoop(nod, k + 1, out, Append(lg, LogUnhandledNode(n)))

\* Mutant: the separator is written before every recognized part.
RECURSIVE toStringLeadLoop(_, _, _)
toStringLeadLoop(nod, k, out) ==
    IF k > Len(nod) THEN out
    ELSE IF nod[k].type = "String"
         THEN toStringLeadLoop(nod, k + 1, Append(out, Space) \o nod[k].Str)
         ELSE toStringLeadLoop(nod, k + 1, out)

toStringLeadingSpace(nod) == toStringLeadLoop(nod, 1, <<>>)

toString(nod) == toStringLoop(nod, 1, <<>>, <<>>).buf

\* The log lines one call of toString prints.
toStringLog(nod) == toStringLoop(nod, 1, <<>>, <<>>).log

----------------------------------------------------------------------------
(* The parsed statements (pg_query nodes) main() looks at *)

CreateStmt(rel, elts) == [type |-> "CreateStmt", Relname |-> rel, TableElts |-> elts]
RawStmt(s)            == [type |-> "RawStmt", Stmt |-> s]
InsertStmt            == [type |-> "InsertStmt"]
ColumnDef(name, typ)  == [type |-> "ColumnDef", Colname |-> name, TypeNames |-> typ]
Constraint            == [type |-> "Constraint"]

LogUnexpectedStatement(n) ==
    [kind |-> "log", msg |-> "unexpected statement type", type |-> n.type]

\* src/main.go:73-86: the CREATE TABLE statements of stmt.Statements, and the
\* log lines printed while looking for them.
RECURSIVE walkLoop(_, _, _, _)
walkLoop(stmts, k, createTables, lg) ==
    IF k > Len(stmts) THEN [createTables |-> createTables, log |-> lg]
    ELSE LET n == stmts[k]
         IN  IF n.type = "RawStmt"
             THEN IF n.Stmt.type = "CreateStmt"
                  THEN walkLoop(stmts, k + 1, Append(createTables, n.Stmt), lg)
                  ELSE walkLoop(stmts, k + 1, createTables, lg)
             ELSE IF n.type = "CreateStmt"
                  THEN walkLoop(stmts, k + 1, Append(createTables, n), lg)
                  ELSE walkLoop(stmts, k + 1, createTables,
                                Append(lg, LogUnexpectedStatement(n)))

\* Mutant: only the RawStmt case is handled; a bare CreateStmt is unexpected.
RECURSIVE walkRawOnlyLoop(_, _, _, _)
walkRawOnlyLoop(stmts, k, createTables, lg) ==
    IF k > Len(stmts) THEN [createTables |-> createTables, log |-> lg]
    ELSE LET n == stmts[k]
         IN  IF n.type = "RawStmt" /\ n.Stmt.type = "CreateStmt"
             THEN walkRawOnlyLoop(stmts, k + 1, Append(createTables, n.Stmt), lg)
             ELSE walkRawOnlyLoop(stmts, k + 1, createTables, lg)

walkStatementsRawOnly(stmts) == walkRawOnlyLoop(stmts, 1, <<>>, <<>>)

walkStatements(stmts) == walkLoop(stmts, 1, <<>>, <<>>)

\* strings.Split(s, ","): the pieces of s between commas (always at least one).
RECURSIVE splitLoop(_, _, _, _)
splitLoop(s, k, cur, pieces) ==
    IF k > Len(s) THEN Append(pieces, cur)
    ELSE IF s[k] = Comma THEN splitLoop(s, k + 1, <<>>, Append(pieces, cur))
         ELSE splitLoop(s, k + 1, Append(cur, s[k]), pieces)

Split(s) == splitLoop(s, 1, <<>>, <<>>)

\* src/main.go:88-93: the keys of the map `tables`.
splitTables(matchTables) ==
    IF matchTables # <<>>
    THEN {Split(matchTables)[j] : j \in 1..Len(Split(matchTables))}
    ELSE {}

\* src/main.go:108-119: the columns of one CREATE TABLE statement.
RECURSIVE columnsLoop(_, _, _)
columnsLoop(items, k, cols) ==
    IF k > Len(items) THEN cols
    ELSE IF items[k].type # "ColumnDef" THEN columnsLoop(items, k + 1, cols)
         ELSE columnsLoop(items, k + 1,
                          Append(cols, [Name |-> items[k].Colname,
                                        Type |-> toString(items[k].TypeNames)]))

\* Mutant: each column is put in front of the ones found before it.
RECURSIVE columnsPrependLoop(_, _, _)
columnsPrependLoop(items, k, cols) ==
    IF k > Len(items) THEN cols
    ELSE IF items[k].type # "ColumnDef" THEN columnsPrependLoop(items, k + 1, cols)
         ELSE columnsPrependLoop(items, k + 1,
                                 <<[Name |-> items[k].Colname,
                                    Type |-> toString(items[k].TypeNames)]>> \o cols)

tableColumnsReversed(items) == columnsPrependLoop(items, 1, <<>>)

tableColumns(items) == columnsLoop(items, 1, <<>>)

\* The log lines toString prints for the columns of one statement.
RECURSIVE columnsLog(_, _)
columnsLog(items, k) ==
    IF k > Len(items) THEN <<>>
    ELSE IF items[k].type # "ColumnDef" THEN columnsLog(items, k + 1)
         ELSE toStringLog(items[k].TypeNames) \o columnsLog(items, k + 1)

\* src/main.go:99-121: data.Tables and the log lines printed while building it.
RECURSIVE buildLoop(_, _, _, _, _)
buildLoop(createTables, tables, k, tbls, lg) ==
    IF k > Len(createTables) THEN [Tables |-> tbls, log |-> lg]
    ELSE LET s == createTables[k]
             tableName == s.Relname
         IN  IF Cardinality(tables) > 0 /\ tableName \notin tables
             THEN buildLoop(createTables, tables, k + 1, tbls, lg)
             ELSE buildLoop(createTables, tables, k + 1,
                            Append(tbls, [Name |-> tableName,
                                          Columns |-> tableColumns(s.TableElts)]),
                            lg \o columnsLog(s.TableElts, 1))

buildTables(createTables, tables) == buildLoop(createTables, tables, 1, <<>>, <<>>)

----------------------------------------------------------------------------
(* The template, src/main.go:20-32, and its execution *)

\* Rendered text is a sequence of chunks: literal text of the template, and
\* values the template inserted.
Lit(t) == [kind |-> "lit", text |-> t]
Val(v) == [kind |-> "val", chars |-> v]

\* src/main.go:27-29: {{- range .Columns}} ... {{- end}}
RECURSIVE fieldLines(_, _)
fieldLines(cols, k) ==
    IF k > Len(cols) THEN <<>>
    ELSE <<Lit("\n\t"), Val(goTitleCase(cols[k].Name)), Lit(" string // "),
           Val(cols[k].Type)>> \o fieldLines(cols, k + 1)

\* src/main.go:30: {{range .Columns}}"{{.Name}}",{{end}}
RECURSIVE initValues(_, _)
initValues(cols, k) ==
    IF k > Len(cols) THEN <<>>
    ELSE <<Lit("\""), Val(cols[k].Name), Lit("\",")>> \o initValues(cols, k + 1)

\* Mutant: the initializer has no value for TableName.
tableTextNoTableName(t) ==
    <<Lit("\n// "), Val(goTitleCase(t.Name)), Lit(" contains constants for the "),
      Val(t.Name), Lit(" table\nvar "), Val(goTitleCase(t.Name)),
      Lit(" = struct{\n\tTableName string")>>
    \o fieldLines(t.Columns, 1)
    \o <<Lit("\n}{")>>
    \o initValues(t.Columns, 1)
    \o <<Lit(" }\n")>>

\* src/main.go:23-31: the body of {{range .Tables}} for one table.
tableText(t) ==
    <<Lit("\n// "), Val(goTitleCase(t.Name)), Lit(" contains constants for the "),
      Val(t.Name), Lit(" table\nvar "), Val(goTitleCase(t.Name)),
      Lit(" = struct{\n\tTableName string")>>
    \o fieldLines(t.Columns, 1)
    \o <<Lit("\n}{\""), Val(t.Name), Lit("\",")>>
    \o initValues(t.Columns, 1)
    \o <<Lit(" }\n")>>

RECURSIVE tablesText(_, _)
tablesText(tbls, k) ==
    IF k > Len(tbls) THEN <<>> ELSE tableText(tbls[k]) \o tablesText(tbls, k + 1)

\* The built-in template executed on d.
gencodeTmpl(d) ==
    <<Lit("// Code generated by pgsqlconsts; DO NOT EDIT.\npackage "), Val(d.Package),
      Lit("\n\n")>>
    \o tablesText(d.Tables, 1)
    \o <<Lit("\n")>>

\* strings.ToUpper on the characters the model uses.
ToUpper(str) == [j \in 1..Len(str) |-> IF str[j] \in 97..122 THEN str[j] - 32 ELSE str[j]]

RECURSIVE upperNames(_, _)
upperNames(tbls, k) ==
    IF k > Len(tbls) THEN <<>>
    ELSE <<Val(ToUpper(tbls[k].Name)), Lit("\n")>> \o upperNames(tbls, k + 1)

\* Template files a user may pass with -template:
\*   missing.tmpl   does not exist
\*   broken.tmpl    {{range .Tables}                               (does not parse)
\*   badfield.tmpl  {{range .Tables}}{{.Nme}}{{end}}               (no such field)
\*   names.tmpl     {{range .Tables}}{{ToUpper .Name}}\n{{end}}    (not Go source)
TemplateFiles == {"missing.tmpl", "broken.tmpl", "badfield.tmpl", "names.tmpl"}

\* ioutil.ReadFile(*templateFile), src/main.go:131
templateFileReadable(f) == f # "missing.tmpl"

\* template.New("").Funcs(fmap).Parse(templateText), src/main.go:138
templateParses(text) == text # "broken.tmpl"

\* tmpl.Execute(&buf, data), src/main.go:143: whether it succeeds and what it
\* has written into buf.
executeTemplate(text, d) ==
    IF text = "gencodeTmpl" THEN [ok |-> TRUE, out |-> gencodeTmpl(d)]
    ELSE IF text = "names.tmpl" THEN [ok |-> TRUE, out |-> upperNames(d.Tables, 1)]
    ELSE [ok |-> Len(d.Tables) = 0, out |-> <<>>]

----------------------------------------------------------------------------
(* main, src/main.go:48-162 *)

Fatal(msg) == [kind |-> "fatal", msg |-> msg]
Raw(text)  == [kind |-> "raw", text |-> text]
Gofmt(src) == [kind |-> "gofmt", src |-> src]
NotFormatted == [kind |-> "none"]

\* log.Fatalf: the message goes to stderr and the process exits with status 1.
Die(msg) == pc' = "exit1" /\ stderr' = Append(stderr, Fatal(msg))

\* src/main.go:54-60
ParseFlags ==
    /\ pc = "flags"
    /\ IF flags.nArg # 1
       THEN pc' = "exit1" /\ stderr' = Append(stderr, [kind |-> "usage"])
       ELSE pc' = "readSQL" /\ UNCHANGED stderr
    /\ UNCHANGED <<flags, env, templateText, data, buf, formatted, outFile, stdout>>
    /\ UNCHANGED <<titleVars, nodVars>>

\* src/main.go:63-66
ReadSQL ==
    /\ pc = "readSQL"
    /\ IF env.sqlReadable
       THEN pc' = "parseSQL" /\ UNCHANGED stderr
       ELSE Die("unable to open")
    /\ UNCHANGED <<flags, env, templateText, data, buf, formatted, outFile, stdout>>
    /\ UNCHANGED <<titleVars, nodVars>>

\* src/main.go:67-70
ParseSQL ==
    /\ pc = "parseSQL"
    /\ IF env.parseOk
       THEN pc' = "extract" /\ UNCHANGED stderr
       ELSE Die("error parsing sql")
    /\ UNCHANGED <<flags, env, templateText, data, buf, formatted, outFile, stdout>>
    /\ UNCHANGED <<titleVars, nodVars>>

\* src/main.go:72-121
Extract ==
    /\ pc = "extract"
    /\ LET w == walkStatements(env.stmts)
           tables == splitTables(flags.matchTables)
           b == buildTables(w.createTables, tables)
       IN  /\ data' = [Package |-> flags.pkg, Tables |-> b.Tables]
           /\ stderr' = stderr \o w.log \o b.log
    /\ pc' = "loadTemplate"
    /\ UNCHANGED <<flags, env, templateText, buf, formatted, outFile, stdout>>
    /\ UNCHANGED <<titleVars, nodVars>>

\* src/main.go:129-136
LoadTemplate ==
    /\ pc = "loadTemplate"
    /\ IF flags.templateFile = ""
       THEN pc' = "parseTemplate" /\ UNCHANGED <<templateText, stderr>>
       ELSE IF templateFileReadable(flags.templateFile)
            THEN /\ templateText' = flags.templateFile
                 /\ pc' = "parseTemplate"
                 /\ UNCHANGED stderr
            ELSE Die("unable to read template file") /\ UNCHANGED templateText
    /\ UNCHANGED <<flags, env, data, buf, formatted, outFile, stdout>>
    /\ UNCHANGED <<titleVars, nodVars>>

\* src/main.go:138-141
ParseTemplate ==
    /\ pc = "parseTemplate"
    /\ IF templateParses(templateText)
       THEN pc' = "execute" /\ UNCHANGED stderr
       ELSE Die("unable to parse template")
    /\ UNCHANGED <<flags, env, templateText, data, buf, formatted, outFile, stdout>>
    /\ UNCHANGED <<titleVars, nodVars>>

\* src/main.go:142-145
Execute ==
    /\ pc = "execute"
    /\ LET r == executeTemplate(templateText, data)
       IN  /\ buf' = r.out
           /\ IF r.ok
              THEN pc' = "format" /\ UNCHANGED stderr
              ELSE Die("error executing template")
    /\ UNCHANGED <<flags, env, templateText, data, formatted, outFile, stdout>>
    /\ UNCHANGED <<titleVars, nodVars>>

\* Mutant: the error of format.Source is not looked at.
FormatSourceUnchecked ==
    /\ pc = "format"
    /\ formatted' = Gofmt(buf)
    /\ pc' = "createOutput"
    /\ UNCHANGED <<flags, env, templateText, data, buf, outFile, stdout, stderr>>
    /\ UNCHANGED <<titleVars, nodVars>>

\* Mutant: the raw text is not copied to stderr before log.Fatalf.
FormatSourceNoDump ==
    /\ pc = "format"
    /\ IF env.formatOk
       THEN /\ formatted' = Gofmt(buf)
            /\ pc' = "createOutput"
            /\ UNCHANGED <<buf, stderr>>
       ELSE /\ Die("generated bad code")
            /\ UNCHANGED <<buf, formatted>>
    /\ UNCHANGED <<flags, env, templateText, data, outFile, stdout>>
    /\ UNCHANGED <<titleVars, nodVars>>

\* src/main.go:146-150. io.Copy(os.Stderr, &buf) reads the buffer empty.
FormatSource ==
    /\ pc = "format"
    /\ IF env.formatOk
       THEN /\ formatted' = Gofmt(buf)
            /\ pc' = "createOutput"
            /\ UNCHANGED <<buf, stderr>>
       ELSE /\ stderr' = stderr \o <<Raw(buf), Fatal("generated bad code")>>
            /\ buf' = <<>>
            /\ pc' = "exit1"
            /\ UNCHANGED formatted
    /\ UNCHANGED <<flags, env, templateText, data, outFile, stdout>>
    /\ UNCHANGED <<titleVars, nodVars>>

\* src/main.go:152-160. os.Create makes the file or truncates it.
CreateOutput ==
    /\ pc = "createOutput"
    /\ IF flags.outputFile = ""
       THEN pc' = "write" /\ UNCHANGED <<outFile, stderr>>
       ELSE IF env.createOk
            THEN /\ outFile' = [exists |-> TRUE, content |-> <<>>]
                 /\ pc' = "write"
                 /\ UNCHANGED stderr
            ELSE Die("error creating output file") /\ UNCHANGED outFile
    /\ UNCHANGED <<flags, env, templateText, data, buf, formatted, stdout>>
    /\ UNCHANGED <<titleVars, nodVars>>

\* src/main.go:161, then main returns and the deferred f.Close() runs.
WriteOutput ==
    /\ pc = "write"
    /\ IF flags.outputFile = ""
       THEN stdout' = Append(stdout, formatted) /\ UNCHANGED outFile
       ELSE /\ outFile' = [outFile EXCEPT !.content = Append(@, formatted)]
            /\ UNCHANGED stdout
    /\ pc' = "exit0"
    /\ UNCHANGED <<flags, env, templateText, data, buf, formatted, stderr>>
    /\ UNCHANGED <<titleVars, nodVars>>

----------------------------------------------------------------------------
(* Inputs *)

str_user_id    == <<117, 115, 101, 114, 95, 105, 100>>                \* "user_id"
str_first_name == <<102, 105, 114, 115, 116, 32, 110, 97, 109, 101>>  \* "first name"
str_users      == <<117, 115, 101, 114, 115>>                         \* "users"
str_posts      == <<112, 111, 115, 116, 115>>                         \* "posts"
str_email      == <<101, 109, 97, 105, 108>>                          \* "email"
str_int4       == <<105, 110, 116, 52>>                               \* "int4"
str_text       == <<116, 101, 120, 116>>                              \* "text"
str_pg_catalog == <<112, 103, 95, 99, 97, 116, 97, 108, 111, 103>>    \* "pg_catalog"
str_models     == <<109, 111, 100, 101, 108, 115>>                    \* "models"

\* 'i', 'd', 'D', ' ', '_'
TitleAlphabet == {105, 100, 68, Space, Underscore}
TitleInputs   == SeqsUpTo(TitleAlphabet, MaxLen) \cup {str_user_id, str_first_name}

NameParts == {StringNode(<<>>), StringNode(str_int4), StringNode(str_pg_catalog),
              IntegerNode}
NodInputs == SeqsUpTo(NameParts, MaxParts)

TableNames == {str_users, str_posts}

\* -tables: "", "users", "posts,users", ","
MatchTablesInputs == {<<>>, str_users, str_posts \o <<Comma>> \o str_users, <<Comma>>}

IdColumn     == ColumnDef(str_id, <<StringNode(str_pg_catalog), StringNode(str_int4)>>)
UserIdColumn == ColumnDef(str_user_id, <<StringNode(str_text)>>)
EmailColumn  == ColumnDef(str_email, <<StringNode(str_text), IntegerNode>>)

Elements == {IdColumn, UserIdColumn, EmailColumn, Constraint}

\* Statement lists up to MaxStmts whose CREATE TABLE statements have a short body.
ShortBodies == {<<>>, <<IdColumn>>}
ShortCreates == {CreateStmt(r, e) : r \in TableNames, e \in ShortBodies}
ShortStatements == ShortCreates \cup {RawStmt(c) : c \in ShortCreates}
                       \cup {InsertStmt, RawStmt(InsertStmt)}

\* One CREATE TABLE statement with every body up to MaxElts elements.
LongCreates == {CreateStmt(str_users, e) : e \in SeqsUpTo(Elements, MaxElts)}
LongStatements == LongCreates \cup {RawStmt(c) : c \in LongCreates}

Schemas == SeqsUpTo(ShortStatements, MaxStmts) \cup {<<st>> : st \in LongStatements}

SampleSchemas ==
    { <<>>,
      << RawStmt(InsertStmt),
         RawStmt(CreateStmt(str_users, <<IdColumn, Constraint, EmailColumn>>)),
         CreateStmt(str_posts, <<UserIdColumn>>) >> }

OldFile == [exists |-> TRUE, content |-> <<[kind |-> "old"]>>]
NoFile  == [exists |-> FALSE, content |-> <<>>]

----------------------------------------------------------------------------
(* Specifications *)

TitleIdle == titleIn = <<>> /\ titleOut = <<>> /\ titleDone = FALSE
NodIdle   == nodIn = <<>> /\ nodOut = <<>> /\ nodLog = <<>> /\ nodDone = FALSE
MainIdle  ==
    /\ pc = "none"
    /\ flags = [nArg |-> 1, pkg |-> str_models, matchTables |-> <<>>,
                outputFile |-> "", templateFile |-> ""]
    /\ env = [sqlReadable |-> TRUE, parseOk |-> TRUE, stmts |-> <<>>,
              formatOk |-> TRUE, createOk |-> TRUE, outFile0 |-> NoFile]
    /\ templateText = "gencodeTmpl"
    /\ data = [Package |-> <<>>, Tables |-> <<>>]
    /\ buf = <<>>
    /\ formatted = NotFormatted
    /\ outFile = NoFile
    /\ stdout = <<>>
    /\ stderr = <<>>

\* The state main() starts in, for given flags and a given outside world.
MainStart(f, e) ==
    /\ pc = "flags"
    /\ flags = f
    /\ env = e
    /\ templateText = "gencodeTmpl"
    /\ data = [Package |-> <<>>, Tables |-> <<>>]
    /\ buf = <<>>
    /\ formatted = NotFormatted
    /\ outFile = e.outFile0
    /\ stdout = <<>>
    /\ stderr = <<>>

\* Every schema of Schemas and every -tables value, in a run where no step fails.
InitSchemas ==
    \E st \in Schemas, mt \in MatchTablesInputs :
        MainStart([nArg |-> 1, pkg |-> str_models, matchTables |-> mt,
                   outputFile |-> "", templateFile |-> ""],
                  [sqlReadable |-> TRUE, parseOk |-> TRUE, stmts |-> st,
                   formatOk |-> TRUE, createOk |-> TRUE, outFile0 |-> NoFile])

\* Every combination of flags and failures, on the sample schemas.
InitRuns ==
    \E n \in {0, 1, 2}, mt \in {<<>>, str_users},
       of \in {"", "out.go"}, tf \in {""} \cup TemplateFiles,
       st \in SampleSchemas, f0 \in {NoFile, OldFile},
       rd \in BOOLEAN, ps \in BOOLEAN, fo \in BOOLEAN, co \in BOOLEAN :
        MainStart([nArg |-> n, pkg |-> str_models, matchTables |-> mt,
                   outputFile |-> of, templateFile |-> tf],
                  [sqlReadable |-> rd, parseOk |-> ps, stmts |-> st,
                   formatOk |-> fo, createOk |-> co, outFile0 |-> f0])

Init == TitleIdle /\ NodIdle /\ (InitSchemas \/ InitRuns)

Next ==
    \/ ParseFlags
    \/ ReadSQL
    \/ ParseSQL
    \/ Extract
    \/ LoadTemplate
    \/ ParseTemplate
    \/ Execute
    \/ FormatSource
    \/ CreateOutput
    \/ WriteOutput

Spec == Init /\ [][Next]_vars

\* A call of goTitleCase on every input of TitleInputs.
InitTitle ==
    /\ titleIn \in TitleInputs /\ titleOut = <<>> /\ titleDone = FALSE
    /\ NodIdle /\ MainIdle

CallGoTitleCase ==
    /\ ~titleDone
    /\ titleOut' = goTitleCase(titleIn)
    /\ titleDone' = TRUE
    /\ UNCHANGED <<titleIn, nodVars, mainVars>>

NextTitle == CallGoTitleCase

SpecTitle == InitTitle /\ [][NextTitle]_vars

\* A call of toString on every input of NodInputs.
InitToString ==
    /\ nodIn \in NodInputs /\ nodOut = <<>> /\ nodLog = <<>> /\ nodDone = FALSE
    /\ TitleIdle /\ MainIdle

CallToString ==
    /\ ~nodDone
    /\ nodOut' = toString(nodIn)
    /\ nodLog' = toStringLog(nodIn)
    /\ nodDone' = TRUE
    /\ UNCHANGED <<nodIn, titleVars, mainVars>>

NextToString == CallToString

SpecToString == InitToString /\ [][NextToString]_vars

----------------------------------------------------------------------------
(* Claims about goTitleCase, checked under SpecTitle *)

str_UserID == <<85, 115, 101, 114, 73, 68>>     \* "UserID"
str_UserId == <<85, 115, 101, 114, 73, 100>>    \* "UserId"

IsSeparator(c)   == c = Space \/ c = Underscore
IsSpace(c)       == c = Space
NotUnderscore(c) == c # Underscore
IsLower(c)       == c \in 97..122
OnlySeparators(s) == \A j \in 1..Len(s) : IsSeparator(s[j])
CountOf(c, s)     == Cardinality({j \in 1..Len(s) : s[j] = c})

\* The reference result: upper-case the first character and every character
\* that follows a space or an underscore, then delete the underscores.
RefUpper(c)  == IF IsLower(c) THEN c - 32 ELSE c
RefMarked(s) == [j \in 1..Len(s) |->
                    IF j = 1 THEN RefUpper(s[j])
                    ELSE IF IsSeparator(s[j - 1]) THEN RefUpper(s[j]) ELSE s[j]]
RefTitle(s)  == SelectSeq(RefMarked(s), NotUnderscore)

\* C1 as stated: goTitleCase("user_id") returns "UserID".
C1_ReturnsUserID ==
    (titleDone /\ titleIn = str_user_id) => titleOut = str_UserID

\* C1 amended: goTitleCase("user_id") returns "UserId"; only the whole string
\* "id" is mapped to "ID".
C1_ReturnsUserId ==
    (titleDone /\ titleIn = str_user_id) => titleOut = str_UserId

C1_Witness == titleDone /\ titleIn = str_user_id /\ Len(titleOut) = 6

\* C2: for every input other than "id", goTitleCase(s) is the reference result;
\* the result has no underscore and as many spaces as the input.
C2_MatchesReference ==
    (titleDone /\ titleIn # str_id) =>
        /\ titleOut = RefTitle(titleIn)
        /\ CountOf(Underscore, titleOut) = 0
        /\ CountOf(Space, titleOut) = CountOf(Space, titleIn)

C2_Witness ==
    /\ titleDone
    /\ titleIn # str_id
    /\ \E j \in 1..(Len(titleIn) - 1) : titleIn[j] = Underscore /\ IsLower(titleIn[j + 1])
    /\ \E j \in 1..(Len(titleIn) - 1) : titleIn[j] = Space /\ IsLower(titleIn[j + 1])

\* C3 as stated: an input made only of spaces and underscores gives the empty
\* string.
C3_SeparatorsGiveEmpty ==
    (titleDone /\ OnlySeparators(titleIn)) => titleOut = <<>>

\* C3 amended: an input made only of spaces and underscores gives the input
\* with its underscores deleted and its spaces kept, so the result is empty
\* exactly when the input holds no space.
C3_SeparatorsKeepSpaces ==
    (titleDone /\ OnlySeparators(titleIn)) =>
        /\ titleOut = SelectSeq(titleIn, IsSpace)
        /\ (titleOut = <<>>) <=> (CountOf(Space, titleIn) = 0)

C3_Witness ==
    /\ titleDone
    /\ OnlySeparators(titleIn)
    /\ CountOf(Space, titleIn) > 0
    /\ CountOf(Underscore, titleIn) > 0

----------------------------------------------------------------------------
(* Claims about toString, checked under SpecToString *)

IsStringNode(n) == n.type = "String"
NotStringNode(n) == n.type # "String"
Recognized(nod) == SelectSeq(nod, IsStringNode)

\* texts[k..] joined with one space between consecutive texts
RECURSIVE JoinFrom(_, _)
JoinFrom(parts, k) ==
    IF k > Len(parts) THEN <<>>
    ELSE (IF k > 1 THEN <<Space>> ELSE <<>>) \o parts[k].Str \o JoinFrom(parts, k + 1)

JoinedWithSpaces(nod) ==
    /\ nodOut = JoinFrom(Recognized(nod), 1)
    /\ nodOut # <<>> => (nodOut[1] # Space /\ nodOut[Len(nodOut)] # Space)

SkippedAreLogged(nod) ==
    nodLog = [j \in 1..Len(SelectSeq(nod, NotStringNode)) |->
                 LogUnhandledNode(SelectSeq(nod, NotStringNode)[j])]

AllTextsNonEmpty(nod) ==
    \A j \in 1..Len(Recognized(nod)) : Recognized(nod)[j].Str # <<>>

\* C8 as stated: for every list of parts, empty texts included, the result is
\* the recognized texts with exactly one space between consecutive ones and no
\* leading or trailing space; other parts are skipped and logged.
C8_JoinedAlways ==
    nodDone => (JoinedWithSpaces(nodIn) /\ SkippedAreLogged(nodIn))

\* C8 amended: the same, for every list of parts whose recognized parts all
\* have non-empty text; parts of another kind are skipped and logged for
\* every list.
C8_JoinedWhenNonEmpty ==
    nodDone =>
        /\ AllTextsNonEmpty(nodIn) => JoinedWithSpaces(nodIn)
        /\ SkippedAreLogged(nodIn)

C8_Witness ==
    /\ nodDone
    /\ AllTextsNonEmpty(nodIn)
    /\ Len(Recognized(nodIn)) >= 2
    /\ Len(nodLog) >= 1

----------------------------------------------------------------------------
(* Claims about the extraction, checked under Spec *)

\* main is past src/main.go:121 and has not exited
Extracted ==
    pc \in {"loadTemplate", "parseTemplate", "execute", "format", "createOutput",
            "write", "exit0"}

IsCreate(n) ==
    \/ n.type = "CreateStmt"
    \/ n.type = "RawStmt" /\ n.Stmt.type = "CreateStmt"
NotCreate(n) == ~IsCreate(n)
Unwrap(n) == IF n.type = "RawStmt" THEN n.Stmt ELSE n
IsColumnDef(e) == e.type = "ColumnDef"

Allowlist == splitTables(flags.matchTables)

\* the CREATE TABLE statements of the input, unwrapped, in input order
Creates(stmts) ==
    [j \in 1..Len(SelectSeq(stmts, IsCreate)) |-> Unwrap(SelectSeq(stmts, IsCreate)[j])]

\* those that pass the allowlist
Passing(stmts) ==
    LET Pass(c) == Allowlist = {} \/ c.Relname \in Allowlist
    IN  SelectSeq(Creates(stmts), Pass)

TableNamesOf(tbls) == [j \in 1..Len(tbls) |-> tbls[j].Name]

UnexpectedStatementLogs ==
    SelectSeq(stderr, LAMBDA m : m.kind = "log" /\ m.msg = "unexpected statement type")

\* C4: the extracted tables are, in input order, the names of the CREATE TABLE
\* statements (bare or wrapped) that pass the allowlist; at most as many as
\* there are CREATE TABLE statements and exactly as many when the allowlist is
\* empty. A name that occurs twice is extracted twice.
C4_TablesInOrder ==
    Extracted =>
        /\ TableNamesOf(data.Tables) = TableNamesOf([j \in 1..Len(Passing(env.stmts)) |->
                                          [Name |-> Passing(env.stmts)[j].Relname]])
        /\ Len(data.Tables) <= Len(Creates(env.stmts))
        /\ Allowlist = {} => Len(data.Tables) = Len(Creates(env.stmts))

C4_Witness ==
    /\ Extracted
    /\ Len(data.Tables) = 2
    /\ data.Tables[1].Name = data.Tables[2].Name
    /\ env.stmts[1].type # env.stmts[2].type

\* C5 as stated: every statement that is not a CREATE TABLE, bare or wrapped
\* in a RawStmt, is skipped with one log line, and the CREATE TABLE statements
\* are extracted as if it were absent.
C5_SkippedAndLogged ==
    Extracted =>
        /\ Len(UnexpectedStatementLogs) = Len(SelectSeq(env.stmts, NotCreate))
        /\ Len(data.Tables) = Len(Passing(env.stmts))

\* C9: each extracted table has the ColumnDef elements of its statement, in
\* declaration order and with their raw names; other elements are skipped, and
\* a statement without ColumnDef elements gives a table with no columns.
C9_ColumnsInOrder ==
    Extracted =>
        /\ Len(data.Tables) = Len(Passing(env.stmts))
        /\ \A k \in 1..Len(data.Tables) :
              LET defs == SelectSeq(Passing(env.stmts)[k].TableElts, IsColumnDef)
              IN  [j \in 1..Len(data.Tables[k].Columns) |-> data.Tables[k].Columns[j].Name]
                    = [j \in 1..Len(defs) |-> defs[j].Colname]

C9_Witness ==
    /\ Extracted
    /\ Len(env.stmts) = 1
    /\ Len(data.Tables) = 1
    /\ Len(Unwrap(env.stmts[1]).TableElts) = 3
    /\ Unwrap(env.stmts[1]).TableElts[2].type = "Constraint"
    /\ Len(data.Tables[1].Columns) = 2
    /\ data.Tables[1].Columns[1].Name # data.Tables[1].Columns[2].Name

----------------------------------------------------------------------------
(* Claim about the built-in template, checked under Spec *)

\* the built-in template was executed into buf and buf is still there
Rendered ==
    templateText = "gencodeTmpl" /\ pc \in {"format", "createOutput", "write", "exit0"}

Indices(b) == [j \in 1..Len(b) |-> j]

\* where the text of each table begins in the rendered text, and where it ends
TableStarts(b) == SelectSeq(Indices(b), LAMBDA j : b[j] = Lit("\n// "))
TableEnd(b, k) == IF k < Len(TableStarts(b)) THEN TableStarts(b)[k + 1] - 1 ELSE Len(b) - 1
TableChunks(b, k) == SubSeq(b, TableStarts(b)[k], TableEnd(b, k))

ValuesAt(seg, pos) == [j \in 1..Len(pos) |-> seg[pos[j]].chars]

\* the name of the declared variable: var NAME = struct{ TableName string
StructNames(seg) ==
    ValuesAt(seg, SelectSeq(Indices(seg), LAMBDA j :
        /\ seg[j].kind = "val"
        /\ j > 1 /\ seg[j - 1] = Lit(" table\nvar ")
        /\ j < Len(seg) /\ seg[j + 1] = Lit(" = struct{\n\tTableName string")))

\* the names of the fields declared after TableName: NAME string // type
FieldNames(seg) ==
    ValuesAt(seg, SelectSeq(Indices(seg), LAMBDA j :
        /\ seg[j].kind = "val"
        /\ j > 1 /\ seg[j - 1] = Lit("\n\t")
        /\ j < Len(seg) /\ seg[j + 1] = Lit(" string // ")))

\* the values of the positional initializer: }{"v0","v1",... }
InitializerValues(seg) ==
    ValuesAt(seg, SelectSeq(Indices(seg), LAMBDA j :
        /\ seg[j].kind = "val"
        /\ j > 1 /\ seg[j - 1] \in {Lit("\n}{\""), Lit("\"")}
        /\ j < Len(seg) /\ seg[j + 1] = Lit("\",")))

\* everything between }{ and the closing } is a quoted value followed by a comma
InitializerIsValuesOnly(seg) ==
    \E a \in 1..Len(seg) :
        /\ seg[a] \in {Lit("\n}{\""), Lit("\n}{")}
        /\ \A j \in 1..Len(seg) : (seg[j] \in {Lit("\n}{\""), Lit("\n}{")}) => j = a
        /\ seg[Len(seg)] = Lit(" }\n")
        /\ seg[a] = Lit("\n}{\"") => Len(seg) - a = 3 * Len(InitializerValues(seg))
        /\ seg[a] = Lit("\n}{") => Len(seg) - a = 1 + 3 * Len(InitializerValues(seg))

\* C7: for every table the built-in template emits one struct value named
\* goTitleCase(table name), with the field TableName and then one field per
\* column in declaration order named goTitleCase(column name), and a positional
\* initializer of n+1 values: the raw table name, then the raw column names in
\* the same order.
C7_DefaultTemplate ==
    Rendered =>
        /\ Len(TableStarts(buf)) = Len(data.Tables)
        /\ \A k \in 1..Len(data.Tables) :
              LET seg  == TableChunks(buf, k)
                  t    == data.Tables[k]
                  cols == [j \in 1..Len(t.Columns) |-> t.Columns[j].Name]
              IN  /\ StructNames(seg) = <<goTitleCase(t.Name)>>
                  /\ FieldNames(seg) = [j \in 1..Len(cols) |-> goTitleCase(cols[j])]
                  /\ InitializerValues(seg) = <<t.Name>> \o cols
                  /\ Len(InitializerValues(seg)) = Len(t.Columns) + 1
                  /\ InitializerIsValuesOnly(seg)

C7_Witness ==
    /\ Rendered
    /\ Len(data.Tables) = 2
    /\ Len(data.Tables[1].Columns) = 2
    /\ Len(FieldNames(TableChunks(buf, 1))) = 2
    /\ Len(InitializerValues(TableChunks(buf, 1))) = 3

----------------------------------------------------------------------------
(* Claims about the output destination, checked under Spec *)

OutputUntouched == outFile = env.outFile0 /\ stdout = <<>>

LastFatal(msg) == stderr # <<>> /\ stderr[Len(stderr)] = Fatal(msg)

\* every step before the output is opened has succeeded
StepsBeforeOutputPass ==
    /\ flags.nArg = 1
    /\ env.sqlReadable
    /\ env.parseOk
    /\ flags.templateFile # "" => templateFileReadable(flags.templateFile)
    /\ templateParses(templateText)
    /\ executeTemplate(templateText, data).ok
    /\ env.formatOk

\* the run reaches format.Source
ReachesFormat ==
    /\ flags.nArg = 1
    /\ env.sqlReadable
    /\ env.parseOk
    /\ flags.templateFile # "" =>
          /\ templateFileReadable(flags.templateFile)
          /\ templateParses(flags.templateFile)
    /\ pc \notin {"flags", "readSQL", "parseSQL", "extract", "loadTemplate",
                  "parseTemplate", "execute"}
    /\ executeTemplate(templateText, data).ok

\* C6: the output destination is created, truncated or written only after the
\* input was read and parsed, the template parsed and executed and the text
\* formatted; a run that fails in one of those steps ends with the destination
\* as it was and nothing on standard output.
C6_OutputOnlyAfterVerify ==
    /\ ~OutputUntouched =>
          /\ pc \in {"write", "exit0"}
          /\ StepsBeforeOutputPass
          /\ formatted = Gofmt(buf)
    /\ (pc = "exit1" /\ ~LastFatal("error creating output file")) => OutputUntouched
    /\ ~StepsBeforeOutputPass => pc \notin {"createOutput", "write", "exit0"}

C6_Witness ==
    /\ pc = "exit1"
    /\ LastFatal("unable to parse template")
    /\ flags.outputFile # ""
    /\ env.outFile0 = OldFile
    /\ env.createOk

\* C10: when the formatter rejects the rendered text, the whole raw text is
\* written to standard error before the run ends with failure, and the output
\* destination is never opened or written.
C10_RawTextDumped ==
    /\ (ReachesFormat /\ ~env.formatOk /\ pc # "format") =>
          /\ pc = "exit1"
          /\ Len(stderr) >= 2
          /\ stderr[Len(stderr)] = Fatal("generated bad code")
          /\ stderr[Len(stderr) - 1] = Raw(executeTemplate(templateText, data).out)
          /\ OutputUntouched
    /\ LastFatal("generated bad code") => (ReachesFormat /\ ~env.formatOk)

C10_Witness ==
    /\ pc = "exit1"
    /\ LastFatal("generated bad code")
    /\ flags.outputFile # ""
    /\ env.outFile0 = OldFile
    /\ Len(stderr[Len(stderr) - 1].text) > 3

====
